---- MODULE Spec2Model ----
(***************************************************************************)
(* Model of packages/zodfig/src/index.ts.                                  *)
(*                                                                         *)
(* Part I  : class ZodFig (constructor, merge, override, overrideAync)     *)
(*           over an explicit JavaScript heap: objects have an identity,   *)
(*           a frozen flag, own properties or array elements.  Spec is     *)
(*           the state machine of a caller that constructs ZodFigs,        *)
(*           combines them and writes through the references it holds;     *)
(*           SpecAsync that of overrideAync and its overriders.            *)
(*           SpecAlgebra is a caller that evaluates both groupings of a    *)
(*           three-way merge and then an override.                         *)
(* Part II : the orchestration loop of cli() (go, the chokidar callback,   *)
(*           the deferred re-invocation timer) and run().  SpecCli.        *)
(***************************************************************************)
EXTENDS Integers, Sequences, FiniteSets, TLC

VARIABLES
    heap,       \* the JS heap: sequence of objects, address = index
    units,      \* the ZodFig instances created so far
    calls,      \* the overrideAync invocations (pending or settled)
    last,       \* the last completed merge / override (observation)
    writes,     \* number of write attempts made through held references
    opts,       \* cli: the parsed options (watch) and the [command] argument
    env,        \* cli: what the process runs in (files found, runtime)
    pc,         \* cli: "start" before the action handler has run, then "loop"
    going,      \* cli: `let going` of the action handler
    shouldRego, \* cli: `let shouldRego`
    activeCmd,  \* cli: `let activeCmd`: index into procs, 0 for undefined
    isWatching, \* the module-level `let isWatching`
    ready,      \* cli: `let ready` of each file's watcher
    procs,      \* the child processes spawned so far
    runs,       \* the activations of run() that have not returned
    timers,     \* pending setTimeout(go, 0) callbacks
    status,     \* the node process: "running", "exited" or "crashed"
    exitCode,   \* the code given to process.exit
    events,     \* number of watcher events delivered
    owed,       \* a go() call was refused since the last run started
    lastRun,    \* what the last activation of run() did (observation)
    counts,     \* calls of go, calls of run, go calls refused during the run
    batch,      \* the last run that ended with shouldRego set (observation)
    lastEvent   \* the last watcher event delivered (observation)

zodVars == <<heap, units, calls, last, writes>>
cliVars == <<opts, env, pc, going, shouldRego, activeCmd, isWatching, ready,
             procs, runs, timers, status, exitCode, events, owed, lastRun,
             counts, batch, lastEvent>>
vars == <<zodVars, cliVars>>

-----------------------------------------------------------------------------
(* Bounds of the exploration *)

MaxUnits == 3       \* ZodFig instances
MaxCalls == 2       \* overrideAync invocations
MaxWrites == 1      \* write attempts through held references
MaxEvents == 2      \* watcher events delivered to the chokidar callback
MaxFiles == 2       \* config files found by scan()

-----------------------------------------------------------------------------
(* JavaScript values and the heap *)

Keys == {"x", "y", "db", "tags"}
KeyOrder == <<"x", "y", "db", "tags">>

Prim(n) == [k |-> "prim", x |-> n]
Ref(a) == [k |-> "ref", x |-> a]
Undefined == [k |-> "undef", x |-> 0]

NoProps == [key \in Keys |-> Undefined]

\* A plain object {} and an array [] as heap cells.
NewObject(props) == [kind |-> "map", frozen |-> FALSE, props |-> props, elems |-> <<>>]
NewArray(elems) == [kind |-> "seq", frozen |-> FALSE, props |-> NoProps, elems |-> elems]

\* kind-of(val) === 'object' (a plain mapping) and Array.isArray(val).
IsObject(h, v) == v.k = "ref" /\ h[v.x].kind = "map"
IsArray(h, v) == v.k = "ref" /\ h[v.x].kind = "seq"

\* Own enumerable property names of the object at address a.
OwnKeys(h, a) == {key \in Keys : h[a].props[key] # Undefined}

\* JS truthiness, used by arr-union's `if (!arg) continue`.
Falsy(v) == v = Undefined \/ v = Prim(0)

(* Structural ("deep") values: literals of the caller and deep-equality.    *)
DPrim(n) == [k |-> "prim", v |-> n]
DMap(f) == [k |-> "map", v |-> f]
DSeq(s) == [k |-> "seq", v |-> s]
DUndef == [k |-> "undef", v |-> 0]

\* The structural value reachable from v in heap h (what deep-equal compares).
RECURSIVE DeepValue(_, _)
DeepValue(h, v) ==
    IF v.k = "prim" THEN DPrim(v.x)
    ELSE IF v.k = "undef" THEN DUndef
    ELSE IF h[v.x].kind = "map"
         THEN DMap([key \in OwnKeys(h, v.x) |-> DeepValue(h, h[v.x].props[key])])
         ELSE DSeq([i \in 1..Len(h[v.x].elems) |-> DeepValue(h, h[v.x].elems[i])])

\* Addresses of the objects reachable from v.
RECURSIVE Reach(_, _)
Reach(h, v) ==
    IF v.k # "ref" THEN {}
    ELSE {v.x}
         \cup UNION {Reach(h, h[v.x].props[key]) : key \in Keys}
         \cup UNION {Reach(h, h[v.x].elems[i]) : i \in 1..Len(h[v.x].elems)}

\* Evaluate an object / array literal d: allocates its cells, children first.
\* Returns the new heap and the value (a Ref for mappings and arrays).
RECURSIVE Build(_, _), BuildProps(_, _, _, _), BuildElems(_, _, _, _)
Build(h, d) ==
    IF d.k = "prim" THEN [h |-> h, v |-> Prim(d.v)]
    ELSE IF d.k = "undef" THEN [h |-> h, v |-> Undefined]
    ELSE IF d.k = "map"
         THEN LET r == BuildProps(h, d.v, 1, NoProps)
              IN  [h |-> Append(r.h, NewObject(r.props)), v |-> Ref(Len(r.h) + 1)]
         ELSE LET r == BuildElems(h, d.v, 1, <<>>)
              IN  [h |-> Append(r.h, NewArray(r.elems)), v |-> Ref(Len(r.h) + 1)]
BuildProps(h, f, i, props) ==
    IF i > Len(KeyOrder) THEN [h |-> h, props |-> props]
    ELSE IF KeyOrder[i] \notin DOMAIN f THEN BuildProps(h, f, i + 1, props)
    ELSE LET r == Build(h, f[KeyOrder[i]])
         IN  BuildProps(r.h, f, i + 1, [props EXCEPT ![KeyOrder[i]] = r.v])
BuildElems(h, s, i, elems) ==
    IF i > Len(s) THEN [h |-> h, elems |-> elems]
    ELSE LET r == Build(h, s[i])
         IN  BuildElems(r.h, s, i + 1, Append(elems, r.v))

-----------------------------------------------------------------------------
(* Inputs of the caller: config literals and partial (override) literals *)

Rec1(k1, v1) == DMap(k1 :> v1)
Rec2(k1, v1, k2, v2) == DMap(k1 :> v1 @@ k2 :> v2)

Configs == <<
    Rec2("x", DPrim(1), "y", DPrim(2)),                          \* {x:1, y:2}
    Rec1("db", Rec2("x", DPrim(1), "y", DPrim(1))),              \* {db:{x:1, y:1}}
    Rec1("tags", DSeq(<<DPrim(1), DPrim(2)>>)),                  \* {tags:[1, 2]}
    Rec1("tags", DSeq(<<Rec1("x", DPrim(1))>>)),                 \* {tags:[{x:1}]}
    DUndef                                                       \* data absent
>>

Partials == <<
    Rec1("x", DPrim(5)),                                         \* {x:5}
    Rec1("db", Rec1("y", DPrim(2))),                             \* {db:{y:2}}
    Rec1("tags", DSeq(<<DPrim(3)>>)),                            \* {tags:[3]}
    DMap(<<>>)                                                   \* {}
>>

\* The value written by a write attempt.
WriteVal == Prim(9)

-----------------------------------------------------------------------------
(* The merge-deep package (index.js: mergeDeep, merge), with clone-deep and  *)
(* arr-union, which index.ts imports as mergeDeep (line 4).                *)

\* clone-deep: a fresh copy of a plain object or an array, recursively;
\* any other value is returned as it is.  The copy is not frozen.
RECURSIVE CloneDeep(_, _), CloneProps(_, _, _, _), CloneElems(_, _, _, _)
CloneDeep(h, v) ==
    IF IsObject(h, v)
    THEN LET r == CloneProps(h, v.x, 1, NoProps)
         IN  [h |-> Append(r.h, NewObject(r.props)), v |-> Ref(Len(r.h) + 1)]
    ELSE IF IsArray(h, v)
    THEN LET r == CloneElems(h, v.x, 1, <<>>)
         IN  [h |-> Append(r.h, NewArray(r.elems)), v |-> Ref(Len(r.h) + 1)]
    ELSE [h |-> h, v |-> v]
CloneProps(h, a, i, props) ==
    IF i > Len(KeyOrder) THEN [h |-> h, props |-> props]
    ELSE IF KeyOrder[i] \notin OwnKeys(h, a) THEN CloneProps(h, a, i + 1, props)
    ELSE LET r == CloneDeep(h, h[a].props[KeyOrder[i]])
         IN  CloneProps(r.h, a, i + 1, [props EXCEPT ![KeyOrder[i]] = r.v])
CloneElems(h, a, i, elems) ==
    IF i > Len(h[a].elems) THEN [h |-> h, elems |-> elems]
    ELSE LET r == CloneDeep(h, h[a].elems[i])
         IN  CloneElems(r.h, a, i + 1, Append(elems, r.v))

\* arr-union: push onto init every element of arr that init.indexOf does not
\* find (=== : primitives by value, objects by identity).  Nothing is copied.
RECURSIVE UnionPush(_, _, _)
UnionPush(init, arr, j) ==
    IF j > Len(arr) THEN init
    ELSE UnionPush(IF \E i \in 1..Len(init) : init[i] = arr[j]
                   THEN init ELSE Append(init, arr[j]),
                   arr, j + 1)

\* One argument of union(init, ...): skipped when falsy, wrapped in an array
\* when it is not one.
UnionArg(h, v) ==
    IF Falsy(v) THEN <<>>
    ELSE IF IsArray(h, v) THEN h[v.x].elems
    ELSE <<v>>

\* union([], newVal, oldVal): a new array.
Union(h, newVal, oldVal) ==
    LET elems == UnionPush(UnionPush(<<>>, UnionArg(h, newVal), 1),
                           UnionArg(h, oldVal), 1)
    IN  [h |-> Append(h, NewArray(elems)), v |-> Ref(Len(h) + 1)]

\* merge(target, obj) of merge-deep: for every own key of obj,
\*   both values plain objects : merge them in place, recursively;
\*   target's value an array   : target[key] = union([], newVal, oldVal);
\*   otherwise                 : target[key] = clone(oldVal).
\* t and o are addresses; the target is updated in place.
RECURSIVE Merge(_, _, _), MergeKeys(_, _, _, _), MergeKeysSwapped(_, _, _, _)

\* merge(target, obj) whose last branch reads target[key] = clone(newVal):
\* the target's own value is copied back instead of the incoming one.
MergeKeysSwapped(h, t, o, i) ==
    IF i > Len(KeyOrder) THEN h
    ELSE LET key == KeyOrder[i]
             oldVal == h[o].props[key]
             newVal == h[t].props[key]
         IN  IF key \notin OwnKeys(h, o) THEN MergeKeysSwapped(h, t, o, i + 1)
             ELSE IF IsObject(h, newVal) /\ IsObject(h, oldVal)
             THEN MergeKeysSwapped(Merge(h, newVal.x, oldVal.x), t, o, i + 1)
             ELSE IF IsArray(h, newVal)
             THEN LET r == Union(h, newVal, oldVal)
                  IN  MergeKeysSwapped([r.h EXCEPT ![t].props[key] = r.v], t, o, i + 1)
             ELSE LET r == CloneDeep(h, newVal)
                  IN  MergeKeysSwapped([r.h EXCEPT ![t].props[key] = r.v], t, o, i + 1)

Merge(h, t, o) == MergeKeys(h, t, o, 1)
MergeKeys(h, t, o, i) ==
    IF i > Len(KeyOrder) THEN h
    ELSE LET key == KeyOrder[i]
             oldVal == h[o].props[key]
             newVal == h[t].props[key]
         IN  IF key \notin OwnKeys(h, o) THEN MergeKeys(h, t, o, i + 1)
             ELSE IF IsObject(h, newVal) /\ IsObject(h, oldVal)
             THEN MergeKeys(Merge(h, newVal.x, oldVal.x), t, o, i + 1)
             ELSE IF IsArray(h, newVal)
             THEN LET r == Union(h, newVal, oldVal)
                  IN  MergeKeys([r.h EXCEPT ![t].props[key] = r.v], t, o, i + 1)
             ELSE LET r == CloneDeep(h, oldVal)
                  IN  MergeKeys([r.h EXCEPT ![t].props[key] = r.v], t, o, i + 1)

\* mergeDeep({}, a, b): target = clone({}); every argument that is an object
\* is merged into it, in order; the others (undefined) are skipped.  The {}
\* literal itself is garbage after the call and is not allocated here; an
\* argument `x ?? {}` with x undefined merges nothing, like a skipped one.
MergeInto(h, t, v) == IF IsObject(h, v) THEN Merge(h, t, v.x) ELSE h

\* mergeDeep that returns at the first argument that is not an object
\* instead of skipping it.
MergeDeepStops(h, a, b) ==
    LET h0 == Append(h, NewObject(NoProps))
        t == Len(h) + 1
    IN  [h |-> IF IsObject(h, a) THEN MergeInto(MergeInto(h0, t, a), t, b) ELSE h0,
         v |-> Ref(t)]

MergeDeep(h, a, b) ==
    LET h0 == Append(h, NewObject(NoProps))
        t == Len(h) + 1
    IN  [h |-> MergeInto(MergeInto(h0, t, a), t, b), v |-> Ref(t)]

-----------------------------------------------------------------------------
(* class ZodFig *)

\* A z.object schema: its shape (field names) and unknownKeys policy.
SchemaFor(d) ==
    [shape |-> IF d.k = "map" THEN DOMAIN d.v ELSE {}, unknownKeys |-> "strip"]

\* ZodObject.merge (zod types.ts, cited at index.ts:25): the shapes are
\* combined, unknownKeys is the incoming schema's.
SchemaMerge(s, incoming) ==
    [shape |-> s.shape \cup incoming.shape, unknownKeys |-> incoming.unknownKeys]

\* constructor(_schema, _config): if (this._config) Object.freeze(this._config)
\* Object.freeze marks the object itself, not the objects it refers to.
ObjectFreeze(h, v) ==
    IF v.k = "ref" THEN [h EXCEPT ![v.x].frozen = TRUE] ELSE h

\* A ZodFig instance.  _schema and _config are its fields; origin, ins, arg
\* and data0 record how it was made (the operation, the receiver and argument
\* instances, the partial literal, and its data when it was constructed).
NewZodFig(h, schema, config, origin, ins, arg) ==
    [_schema |-> schema, _config |-> config,
     origin |-> origin, ins |-> ins, arg |-> arg, data0 |-> DeepValue(h, config)]

Data(h, u) == DeepValue(h, units[u]._config)

Observed(op, recv, a, b, res, r) ==
    [op |-> op, recv |-> recv, a |-> a, b |-> b, res |-> res, r |-> r]
NoOp == Observed("none", 0, DUndef, DUndef, 0, DUndef)

\* overrideAync activations that may still produce an instance.
Unsettled == {c \in 1..Len(calls) : calls[c].pc \in {"pending", "fulfilled"}}

\* Room for one more instance, counting those the pending calls may produce.
Room == Len(units) + Cardinality(Unsettled) < MaxUnits

\* The caller evaluates the literal Configs[i] and passes it to the constructor,
\* keeping its own reference to the literal.
ConstructWith(d) ==
    /\ LET b == Build(heap, d)
           h == ObjectFreeze(b.h, b.v)
       IN  /\ heap' = h
           /\ units' = Append(units,
                  NewZodFig(h, SchemaFor(d), b.v, "new", {}, Undefined))
    /\ UNCHANGED <<calls, last, writes, cliVars>>
Construct(i) == Room /\ ConstructWith(Configs[i])

\* a.merge(b):
\*   new ZodFig(this._schema.merge(merging._schema),
\*              mergeDeep({}, this._config ?? {}, merging._config ?? {}))
MergeCall(a, b) ==
    /\ LET m == MergeDeep(heap, units[a]._config, units[b]._config)
           h == ObjectFreeze(m.h, m.v)
       IN  /\ heap' = h
           /\ units' = Append(units,
                  NewZodFig(h, SchemaMerge(units[a]._schema, units[b]._schema),
                            m.v, "merge", {a, b}, Undefined))
           /\ last' = Observed("merge", a, Data(heap, a), Data(heap, b),
                               Len(units) + 1, DeepValue(h, m.v))
    /\ UNCHANGED <<calls, writes, cliVars>>
ZodFigMerge(a, b) == Room /\ MergeCall(a, b)

\* override that stores config itself: new ZodFig(this._schema, config).
OverrideResultReplaces(h, a, p) ==
    LET hf == ObjectFreeze(h, p)
    IN  [h |-> hf, unit |-> NewZodFig(hf, units[a]._schema, p, "override", {a}, p)]

\* this.override(config), config already evaluated to the value p in heap h:
\*   new ZodFig(this._schema, mergeDeep({}, this._config, config))
OverrideResult(h, a, p) ==
    LET m == MergeDeep(h, units[a]._config, p)
        hf == ObjectFreeze(m.h, m.v)
    IN  [h |-> hf, unit |-> NewZodFig(hf, units[a]._schema, m.v, "override", {a}, p)]

\* a.override(Partials[j]): the caller evaluates the literal, keeping its own
\* reference to it, and calls override.
OverrideCall(a, j) ==
    /\ LET b == Build(heap, Partials[j])
           o == OverrideResult(b.h, a, b.v)
       IN  /\ heap' = o.h
           /\ units' = Append(units, o.unit)
           /\ last' = Observed("override", a, Data(heap, a), Partials[j],
                               Len(units) + 1, o.unit.data0)
    /\ UNCHANGED <<calls, writes, cliVars>>
ZodFigOverride(a, j) == Room /\ OverrideCall(a, j)

\* obj[key] = WriteVal / arr[i] = WriteVal through a held reference.  On a
\* frozen object the assignment has no effect (it throws in strict mode).
WriteProp(h, a, key) ==
    IF h[a].frozen THEN h ELSE [h EXCEPT ![a].props[key] = WriteVal]
WriteElem(h, a, i) ==
    IF h[a].frozen THEN h ELSE [h EXCEPT ![a].elems[i] = WriteVal]

Write ==
    /\ writes < MaxWrites
    /\ \E a \in 1..Len(heap) :
          \/ \E key \in OwnKeys(heap, a) : heap' = WriteProp(heap, a, key)
          \/ \E i \in 1..Len(heap[a].elems) : heap' = WriteElem(heap, a, i)
    /\ writes' = writes + 1
    /\ UNCHANGED <<units, calls, last, cliVars>>

\* a.overrideAync(overrider), up to the await (line 60): the overrider is
\* called, once, with this._config itself; its promise is pending.
\* snap is the receiver's data at the time of the call.
NewCall(a) ==
    [recv |-> a, cur |-> units[a]._config, snap |-> Data(heap, a),
     pc |-> "pending", invoked |-> 1, wrote |-> FALSE,
     out |-> Undefined, partial |-> DUndef, cause |-> "none", res |-> 0]

AsyncCall(a) ==
    /\ Len(calls) < MaxCalls
    /\ Room
    /\ calls' = Append(calls, NewCall(a))
    /\ UNCHANGED <<heap, units, last, writes, cliVars>>

\* The overrider, between its suspension points, attempts to write to the
\* curConfig it was given, at any depth.
OverriderWrite(c) ==
    /\ calls[c].pc = "pending"
    /\ writes < MaxWrites
    /\ \E a \in Reach(heap, calls[c].cur) :
          \/ \E key \in OwnKeys(heap, a) : heap' = WriteProp(heap, a, key)
          \/ \E i \in 1..Len(heap[a].elems) : heap' = WriteElem(heap, a, i)
    /\ writes' = writes + 1
    /\ calls' = [calls EXCEPT ![c].wrote = TRUE]
    /\ UNCHANGED <<units, last, cliVars>>

\* The overrider's promise is fulfilled with the literal Partials[j] ...
OverriderReturn(c, j) ==
    /\ calls[c].pc = "pending"
    /\ LET b == Build(heap, Partials[j])
       IN  /\ heap' = b.h
           /\ calls' = [calls EXCEPT ![c].pc = "fulfilled", ![c].out = b.v,
                                     ![c].partial = Partials[j]]
    /\ UNCHANGED <<units, last, writes, cliVars>>

\* ... or is rejected with a cause.
OverriderThrow(c, cause) ==
    /\ calls[c].pc = "pending"
    /\ calls' = [calls EXCEPT ![c].pc = "rejected", ![c].cause = cause]
    /\ UNCHANGED <<heap, units, last, writes, cliVars>>

\* The continuation of the await: `return this.override(<awaited value>)`
\* resolves the promise of overrideAync; a rejection of the awaited promise
\* is rethrown and rejects it with the same cause.
AsyncResume(c) ==
    \/ /\ calls[c].pc = "fulfilled"
       /\ LET o == OverrideResult(heap, calls[c].recv, calls[c].out)
          IN  /\ heap' = o.h
              /\ units' = Append(units, o.unit)
              /\ calls' = [calls EXCEPT ![c].pc = "resolved",
                                        ![c].res = Len(units) + 1]
              /\ last' = Observed("overrideAync", calls[c].recv, calls[c].snap,
                                  calls[c].partial, Len(units) + 1, o.unit.data0)
       /\ UNCHANGED <<writes, cliVars>>
    \/ /\ calls[c].pc = "rejected"
       /\ calls' = [calls EXCEPT ![c].pc = "failed"]
       /\ UNCHANGED <<heap, units, last, writes, cliVars>>

Causes == {"E1", "E2"}

-----------------------------------------------------------------------------
ZodInit ==
    /\ heap = <<>>
    /\ units = <<>>
    /\ calls = <<>>
    /\ last = NoOp
    /\ writes = 0

\* The cli is not running: Spec and SpecAsync are about the class alone.
NoRun == [outcome |-> "none", validated |-> FALSE, writeCalls |-> 0, arg |-> "none"]
NoCounts == [goCalls |-> 0, started |-> 0, refused |-> 0]
NoBatch == [n |-> 0, events |-> 0, started |-> 0]
NoEvent == [name |-> "none", file |-> 0]
CliOff ==
    /\ opts = [watch |-> FALSE, command |-> FALSE]
    /\ env = [files |-> 0, runInDefined |-> TRUE, unhandledThrows |-> FALSE]
    /\ pc = "off"
    /\ going = FALSE /\ shouldRego = FALSE /\ activeCmd = 0
    /\ isWatching = FALSE
    /\ ready = <<>> /\ procs = <<>> /\ runs = <<>>
    /\ timers = 0 /\ status = "running" /\ exitCode = 0
    /\ events = 0 /\ owed = FALSE /\ lastRun = NoRun
    /\ counts = NoCounts /\ batch = NoBatch /\ lastEvent = NoEvent

Init == ZodInit /\ CliOff

\* The caller of the synchronous API.
Next ==
    \/ \E i \in 1..Len(Configs) : Construct(i)
    \/ \E a, b \in 1..Len(units) : ZodFigMerge(a, b)
    \/ \E a \in 1..Len(units), j \in 1..Len(Partials) : ZodFigOverride(a, j)
    \/ Write

Spec == Init /\ [][Next]_vars

\* The caller of overrideAync and the overriders it supplies, interleaved at
\* their suspension points.
NextAsync ==
    \/ \E i \in 1..Len(Configs) : Construct(i)
    \/ \E a \in 1..Len(units) : AsyncCall(a)
    \/ \E c \in 1..Len(calls) : OverriderWrite(c)
    \/ \E c \in 1..Len(calls), j \in 1..Len(Partials) : OverriderReturn(c, j)
    \/ \E c \in 1..Len(calls), cause \in Causes : OverriderThrow(c, cause)
    \/ \E c \in 1..Len(calls) : AsyncResume(c)

SpecAsync == Init /\ [][NextAsync]_vars

\* A caller that constructs three instances a, b, c (units 1, 2, 3) from the
\* operands, then evaluates a.merge(b), (a.merge(b)).merge(c), b.merge(c) and
\* a.merge(b.merge(c)) (units 4, 5, 6, 7), then overrides one of the seven.
Operands == Configs \o << DMap(<<>>) >>                           \* and {}
MergeSteps == << <<1, 2>>, <<4, 3>>, <<2, 3>>, <<1, 6>> >>
AlgebraConstruct(i) ==
    /\ Len(units) < 3
    /\ ConstructWith(Operands[i])
AlgebraMerge ==
    /\ Len(units) >= 3 /\ Len(units) - 2 <= Len(MergeSteps)
    /\ MergeCall(MergeSteps[Len(units) - 2][1], MergeSteps[Len(units) - 2][2])
AlgebraOverride(a, j) ==
    /\ Len(units) = 3 + Len(MergeSteps)
    /\ OverrideCall(a, j)
NextAlgebra ==
    \/ \E i \in 1..Len(Operands) : AlgebraConstruct(i)
    \/ AlgebraMerge
    \/ \E a \in 1..Len(units), j \in 1..Len(Partials) : AlgebraOverride(a, j)

SpecAlgebra == Init /\ [][NextAlgebra]_vars

-----------------------------------------------------------------------------
(* Part II: cli() and run() *)

\* The state the action handler's closures and run() act on, as one record, so
\* that the pieces of a handler compose; Cur reads it and Set writes it.
Cur ==
    [going |-> going, shouldRego |-> shouldRego, activeCmd |-> activeCmd,
     isWatching |-> isWatching, procs |-> procs, runs |-> runs,
     timers |-> timers, status |-> status, exitCode |-> exitCode,
     owed |-> owed, lastRun |-> lastRun, counts |-> counts, batch |-> batch]
Set(m) ==
    /\ going' = m.going /\ shouldRego' = m.shouldRego
    /\ activeCmd' = m.activeCmd /\ isWatching' = m.isWatching
    /\ procs' = m.procs /\ runs' = m.runs /\ timers' = m.timers
    /\ status' = m.status /\ exitCode' = m.exitCode
    /\ owed' = m.owed /\ lastRun' = m.lastRun
    /\ counts' = m.counts /\ batch' = m.batch

\* The code of a command's 'exit' event: a number, or null (-1) when the
\* command was ended by a signal.
NullCode == 0 - 1
ExitCodes == {0, 1}

\* activeCmd.childProc.kill('SIGTERM'), if (activeCmd)
\* go and the watcher callback without activeCmd.childProc.kill.
KillNothing(m) == m

Kill(m) ==
    IF m.activeCmd # 0 THEN [m EXCEPT !.procs[m.activeCmd].sigterm = TRUE] ELSE m

\* process.exit(code): nothing of the process runs after it.
ProcessExit(m, code) == [m EXCEPT !.status = "exited", !.exitCode = code]

\* The promise of go() is rejected.  No caller handles it (the watcher and the
\* timer drop it, commander's parse() drops the action's): node either ends
\* the process on the unhandled rejection or only warns, by version and flags.
GoRejects(m) ==
    IF env.unhandledThrows THEN [m EXCEPT !.status = "crashed", !.exitCode = 1]
    ELSE m

\* A command just spawned: no signal sent to it, not exited (code null).
Spawned == [sigterm |-> FALSE, exited |-> FALSE, code |-> NullCode]

\* Lines 91-109 with `else process.exit()`: the test of watch at line 103
\* dropped.
GoTailExits(m) ==
    IF opts.command
    THEN [m EXCEPT !.procs = Append(m.procs, Spawned), !.activeCmd = Len(m.procs) + 1,
                   !.timers = IF m.shouldRego THEN m.timers + 1 ELSE m.timers,
                   !.going = FALSE]
    ELSE ProcessExit(m, 0)

\* go, lines 91-109: after `await run(...)` has returned.  When shouldRego is
\* set, batch notes how many go calls the run refused and how many events and
\* runs there had been (no watcher event is delivered in such a step).
GoTail(m) ==
    LET spawned == [m EXCEPT !.procs = Append(m.procs, Spawned),
                             !.activeCmd = Len(m.procs) + 1]
        rest(n) == IF n.shouldRego
                   THEN [n EXCEPT !.timers = n.timers + 1, !.going = FALSE,
                                  !.batch = [n |-> n.counts.refused, events |-> events,
                                             started |-> n.counts.started]]
                   ELSE [n EXCEPT !.going = FALSE]
    IN  IF opts.command THEN rest(spawned)
        ELSE IF ~opts.watch THEN ProcessExit(m, 0)
        ELSE rest(m)

\* run, line 175, then its return into go.  `runIn` is declared nowhere in
\* the file: evaluating it (only when isWatching) is a ReferenceError unless
\* the build defines it as a global; the error is outside run's try block,
\* so run's promise and then go's are rejected, before line 91.
RunEnd(m, r) ==
    LET n == [m EXCEPT !.lastRun = r]
    IN  IF n.isWatching /\ ~env.runInDefined THEN GoRejects(n) ELSE GoTail(n)

\* What one activation of run() has done so far: whether
\* zodfig._schema.parse returned (line 159), how often write was called and
\* with what (line 163).
Fresh == [validated |-> FALSE, writeCalls |-> 0, arg |-> "none"]
Finished(outcome, r) ==
    [outcome |-> outcome, validated |-> r.validated, writeCalls |-> r.writeCalls,
     arg |-> r.arg]

\* run, lines 148-158: from the call to its first suspension or its end.
\*   nofile        : !fs.existsSync(filepath), return
\*   requireThrows : require(filepath) throws, caught
\*   notFunction   : KnownError, caught
\*   fnThrows      : fn() throws, caught
\*   await         : suspended at `await fn()`
BeginOutcomes ==
    IF env.files = 0 THEN {"nofile"}
    ELSE {"nofile", "requireThrows", "notFunction", "fnThrows", "await"}
RunBegin(m, o) ==
    LET n == [m EXCEPT !.owed = FALSE, !.counts.started = @ + 1,
                       !.counts.refused = 0]
    IN  IF o = "await"
        THEN [n EXCEPT !.runs = Append(n.runs,
                                  [pc |-> "fn", validated |-> Fresh.validated,
                                   writeCalls |-> Fresh.writeCalls, arg |-> Fresh.arg])]
        ELSE RunEnd(n, Finished(o, Fresh))

\* go, lines 81-90, entered with going false.  hasPaths is false when go is
\* called without its argument: filepaths[0] then throws a TypeError, after
\* going was set and before run is called.
GoStart(m, hasPaths, o) ==
    LET m1 == [m EXCEPT !.shouldRego = FALSE, !.counts.goCalls = @ + 1]
        m2 == Kill(m1)
        m3 == [m2 EXCEPT !.going = TRUE, !.isWatching = opts.watch]
    IN  IF hasPaths THEN RunBegin(m3, o) ELSE GoRejects(m3)

\* go without the test of `going` (lines 77-80 dropped).
GoUnguarded(m, hasPaths, o) == GoStart(m, hasPaths, o)

\* go(filepaths), lines 76-110, up to its first suspension.
Go(m, hasPaths, o) ==
    IF m.going
    THEN [m EXCEPT !.shouldRego = TRUE, !.owed = TRUE,
                   !.counts.goCalls = @ + 1, !.counts.refused = @ + 1]
    ELSE GoStart(m, hasPaths, o)

Alive == status = "running"

\* The action handler, lines 73-142: scan, one watcher per file when --watch,
\* then `await go(configFiles)`.
ActionHandler ==
    /\ pc = "start" /\ Alive
    /\ pc' = "loop"
    /\ \E o \in BeginOutcomes : Set(Go(Cur, TRUE, o))
    /\ UNCHANGED <<zodVars, opts, env, ready, events, lastEvent>>

\* The callback without the test of `ready` (lines 122-124 dropped).
IgnoredNever(f, eventName) == FALSE

\* if (eventName === 'add' && !ready) break;  ready is the watcher's own.
Ignored(f, eventName) == eventName = "add" /\ ~ready[f]

\* The chokidar 'all' callback of file f, lines 119-136.
WatchEvent(f, eventName) ==
    /\ pc = "loop" /\ Alive /\ opts.watch
    /\ events < MaxEvents
    /\ events' = events + 1
    /\ lastEvent' = [name |-> eventName, file |-> f]
    /\ IF eventName \in {"add", "change"}
       THEN IF Ignored(f, eventName)
            THEN UNCHANGED <<going, shouldRego, activeCmd, isWatching, procs, runs,
                             timers, status, exitCode, owed, lastRun, counts, batch>>
            ELSE \E o \in BeginOutcomes : Set(Go(Cur, TRUE, o))
       ELSE Set(ProcessExit(Kill(Cur), 0))
    /\ UNCHANGED <<zodVars, opts, env, pc, ready>>

\* The chokidar 'ready' callback of file f, lines 137-139.
WatchReady(f) ==
    /\ pc = "loop" /\ Alive /\ opts.watch
    /\ ~ready[f]
    /\ ready' = [ready EXCEPT ![f] = TRUE]
    /\ UNCHANGED <<zodVars, opts, env, pc, going, shouldRego, activeCmd, isWatching,
                   procs, runs, timers, status, exitCode, events, owed, lastRun,
                   counts, batch, lastEvent>>

\* The callback of setTimeout(go, 0), line 107: go is called with no argument.
TimerFires ==
    /\ Alive /\ timers > 0
    /\ Set(Go([Cur EXCEPT !.timers = timers - 1], FALSE, "nofile"))
    /\ UNCHANGED <<zodVars, opts, env, pc, ready, events, lastEvent>>

Without(q, i) == [j \in 1..(Len(q) - 1) |-> IF j < i THEN q[j] ELSE q[j + 1]]

\* run, lines 158-163: resumed from `await fn()`.
\*   fnRejects   : the factory's promise is rejected, caught
\*   notZodFig   : zodfig._schema.parse is not callable, caught
\*   parseFails  : ZodError, caught
\*   writeThrows : write(parsed) is called and throws, caught
\*   await       : write(parsed) is called; suspended at `await write(parsed)`
\* Lines 159-163 with write(zodfig._config) called whatever parse did.
AfterFnUnchecked(r, o) ==
    [r EXCEPT !.validated = o \in {"await", "writeThrows"},
              !.writeCalls = @ + 1, !.arg = "config"]

\* Lines 158-163: `parsed = zodfig._schema.parse(zodfig._config)` returns
\* only in the outcomes writeThrows and await, and write(parsed) is the next
\* call; in the other outcomes control is in the catch block before line 163.
AfterFn(r, o) ==
    IF o \in {"await", "writeThrows"}
    THEN [r EXCEPT !.validated = TRUE, !.writeCalls = @ + 1, !.arg = "parsed"]
    ELSE r

RunResumeFn(i, o) ==
    /\ Alive /\ runs[i].pc = "fn"
    /\ IF o = "await"
       THEN Set([Cur EXCEPT !.runs[i] = [AfterFn(runs[i], o) EXCEPT !.pc = "write"]])
       ELSE Set(RunEnd([Cur EXCEPT !.runs = Without(runs, i)],
                       Finished(o, AfterFn(runs[i], o))))
    /\ UNCHANGED <<zodVars, opts, env, pc, ready, events, lastEvent>>

\* run, lines 163-174: resumed from `await write(parsed)`.
\*   written      : "Config files written"
\*   writeRejects : the writer's promise is rejected, caught
RunResumeWrite(i, o) ==
    /\ Alive /\ runs[i].pc = "write"
    /\ Set(RunEnd([Cur EXCEPT !.runs = Without(runs, i)],
                  Finished(o, runs[i])))
    /\ UNCHANGED <<zodVars, opts, env, pc, ready, events, lastEvent>>

\* The 'exit' callback of a spawned command, lines 98-102.  code is null (-1)
\* when the command was ended by a signal: process.exit(code ?? undefined).
ChildExit(p, code) ==
    /\ Alive /\ ~procs[p].exited
    /\ code = NullCode => procs[p].sigterm
    /\ LET m == [Cur EXCEPT !.procs[p].exited = TRUE, !.procs[p].code = code]
       IN  Set(IF ~opts.watch THEN ProcessExit(m, IF code = NullCode THEN 0 ELSE code)
               ELSE m)
    /\ UNCHANGED <<zodVars, opts, env, pc, ready, events, lastEvent>>

CliInit ==
    /\ opts \in [watch : BOOLEAN, command : BOOLEAN]
    /\ env \in [files : 0..MaxFiles, runInDefined : BOOLEAN, unhandledThrows : BOOLEAN]
    /\ pc = "start"
    /\ going = FALSE /\ shouldRego = FALSE /\ activeCmd = 0
    /\ isWatching = FALSE
    /\ ready = [f \in 1..env.files |-> FALSE]
    /\ procs = <<>> /\ runs = <<>>
    /\ timers = 0 /\ status = "running" /\ exitCode = 0
    /\ events = 0 /\ owed = FALSE /\ lastRun = NoRun
    /\ counts = NoCounts /\ batch = NoBatch /\ lastEvent = NoEvent

InitCli == ZodInit /\ CliInit

EventNames == {"add", "change", "unlink"}

NextCli ==
    \/ ActionHandler
    \/ \E f \in 1..env.files, eventName \in EventNames : WatchEvent(f, eventName)
    \/ \E f \in 1..env.files : WatchReady(f)
    \/ TimerFires
    \/ \E i \in 1..Len(runs), o \in {"fnRejects", "notZodFig", "parseFails", "writeThrows", "await"} :
          RunResumeFn(i, o)
    \/ \E i \in 1..Len(runs), o \in {"written", "writeRejects"} : RunResumeWrite(i, o)
    \/ \E p \in 1..Len(procs), code \in ExitCodes \cup {NullCode} : ChildExit(p, code)

SpecCli == InitCli /\ [][NextCli]_vars

-----------------------------------------------------------------------------
(* Properties of class ZodFig *)

Units == 1..Len(units)
Calls == 1..Len(calls)

\* The merge rule as the specification words it, on structural values: a field
\* on one side only keeps that side's value, two mappings are merged by the
\* same rule, and otherwise (a terminal or a sequence on either side) the
\* second value wins.  Absent data counts as the empty mapping.
OrEmpty(d) == IF d.k = "undef" THEN DMap(<<>>) ELSE d
RECURSIVE RuleMerge(_, _)
RuleMerge(a, b) ==
    IF a.k = "map" /\ b.k = "map"
    THEN DMap([key \in DOMAIN a.v \cup DOMAIN b.v |->
                 IF key \notin DOMAIN b.v THEN a.v[key]
                 ELSE IF key \notin DOMAIN a.v THEN b.v[key]
                 ELSE RuleMerge(a.v[key], b.v[key])])
    ELSE b

\* r holds exactly b's sequence wherever a and b both hold a sequence.
RECURSIVE SeqsReplaced(_, _, _)
SeqsReplaced(a, b, r) ==
    IF a.k = "seq" /\ b.k = "seq" THEN r = b
    ELSE IF a.k = "map" /\ b.k = "map"
    THEN r.k = "map"
         /\ \A key \in DOMAIN a.v \cap DOMAIN b.v :
               key \in DOMAIN r.v /\ SeqsReplaced(a.v[key], b.v[key], r.v[key])
    ELSE TRUE

\* The data override produces for receiver data a and partial p, computed by
\* the code of override on a heap holding just the two values.
OverrideOf(a, p) ==
    LET b1 == Build(<<>>, a)
        b2 == Build(b1.h, p)
        m == MergeDeep(b2.h, b1.v, b2.v)
    IN  DeepValue(m.h, m.v)

\* The objects an instance's data shares with the inputs it was made from.
InputsReach(u) ==
    UNION {Reach(heap, units[i]._config) : i \in units[u].ins}
    \cup Reach(heap, units[u].arg)
Shared(u) == Reach(heap, units[u]._config) \cap InputsReach(u)

\* C1 (as claimed): after construction with data d, no write attempt through a
\* held reference, at any depth of d, changes the data stored in the ZodFig.
C1_FreezeInvariant ==
    \A u \in Units : Data(heap, u) = units[u].data0

\* C2 (as claimed): where the receiver and the supplied value both hold a
\* sequence, the result of override / merge holds exactly the supplied one.
C2_SequencesReplacedWholesale ==
    last.op \in {"merge", "override"} =>
        SeqsReplaced(OrEmpty(last.a), OrEmpty(last.b), last.r)

\* C3 (as claimed): the data of a.merge(b) is the merge of a's and b's data
\* under the rule: one-sided fields kept, mappings merged recursively, and b's
\* value taken where either side is a terminal or a sequence.
C3_MergeDataRule ==
    last.op = "merge" => last.r = RuleMerge(OrEmpty(last.a), OrEmpty(last.b))

\* C4 (as claimed): a.override(p) has a's schema, and data in which every path
\* p does not supply keeps a's value and every value p supplies replaces a's.
C4_OverrideFrame ==
    last.op = "override" =>
        /\ units[last.res]._schema = units[last.recv]._schema
        /\ last.r = RuleMerge(OrEmpty(last.a), OrEmpty(last.b))

\* C5 (as claimed): merge and override leave the data of the existing
\* instances unchanged, return a new instance, and the result's data shares
\* no object with the data of the receiver or of the argument.
C5_NoMutationNoSharing ==
    writes = 0 =>
        /\ \A u \in Units : Data(heap, u) = units[u].data0
        /\ \A u \in Units : units[u].ins \subseteq 1..(u - 1)
        /\ \A u \in Units : units[u].origin # "new" => Shared(u) = {}

\* C6 (as claimed): when the overrider fails, the promise fails with its
\* cause, no ZodFig is produced, and the receiver's schema and data, at every
\* depth, are as they were when overrideAync was called.
C6_FailedAsyncLeavesReceiverIntact ==
    \A c \in Calls : calls[c].pc = "failed" =>
        /\ calls[c].cause \in Causes
        /\ calls[c].res = 0
        /\ Data(heap, calls[c].recv) = calls[c].snap

\* C7 (as claimed): overrideAync calls the overrider once, with the receiver's
\* data, and resolves, after it completed, to a ZodFig with the receiver's
\* schema and the data override gives for the overrider's output on the
\* receiver's data as it was when overrideAync was called.
C7_AsyncEqualsOverride ==
    \A c \in Calls : calls[c].pc = "resolved" =>
        /\ calls[c].invoked = 1
        /\ calls[c].cur = units[calls[c].recv]._config
        /\ units[calls[c].res]._schema = units[calls[c].recv]._schema
        /\ units[calls[c].res].data0 = OverrideOf(OrEmpty(calls[c].snap), calls[c].partial)

\* C8 (as claimed): while two or more overrideAync calls on one receiver
\* interleave, the receiver's data never changes, and each resolved call's
\* result is override of the receiver's original data with its own output.
C8_NoConcurrentMutation ==
    \A c1, c2 \in Calls :
        (c1 # c2 /\ calls[c1].recv = calls[c2].recv) =>
            /\ Data(heap, calls[c1].recv) = units[calls[c1].recv].data0
            /\ calls[c1].pc = "resolved" =>
                  units[calls[c1].res].data0 =
                      OverrideOf(OrEmpty(units[calls[c1].recv].data0), calls[c1].partial)

-----------------------------------------------------------------------------
(* Properties of the orchestration loop *)

\* C9: at most one activation of run() is in flight in every reachable state,
\* and while one is in flight `going` is set, so that every go() entered
\* before it completes (from the watcher or from the timer) starts no run.
C9_AtMostOneRunInFlight ==
    /\ Len(runs) <= 1
    /\ runs # <<>> => going

\* A change event arrived while a run was in flight, and was refused.
C9_EventRefusedDuringRun ==
    /\ Len(runs) = 1 /\ events > 0
    /\ shouldRego /\ owed

\* C10 (as claimed): in watch mode a change event that arrived during a run
\* is followed by another run once that run completed: whenever no run is in
\* flight and no re-invocation is pending, no refused event is still owed its
\* run and the loop can start runs again.  Stated for the builds in which
\* `runIn` is defined, and for a process that has not called process.exit.
C10_CoalescedEventsNotLost ==
    (opts.watch /\ env.runInDefined /\ pc = "loop" /\ status # "exited"
        /\ runs = <<>> /\ timers = 0)
    => (~owed /\ ~going)

\* C11 (as claimed): in watch mode, when n >= 1 go calls were refused during
\* one run and no watcher event arrived after that run completed, exactly one
\* follow-up run has been started once the deferred re-invocation has fired:
\* not n, and not zero.  Stated for the builds in which `runIn` is defined,
\* and for a process that has not called process.exit.
C11_ExactlyOneFollowUpRun ==
    (opts.watch /\ env.runInDefined /\ status # "exited"
        /\ batch.n >= 1 /\ events = batch.events
        /\ timers = 0 /\ runs = <<>>)
    => counts.started = batch.started + 1

\* The outcomes of run() in which validation did not succeed: the file is
\* missing or fails to load, its export is not a function (definition
\* error), the factory fails or returns no ZodFig, schema validation fails.
NotValidated ==
    {"nofile", "requireThrows", "notFunction", "fnThrows", "fnRejects",
     "notZodFig", "parseFails"}

\* What C12 says of one activation of run(), in flight or finished.
WriteOnlyValidated(r) ==
    /\ r.writeCalls <= 1
    /\ r.writeCalls = 1 => (r.validated /\ r.arg = "parsed")
    /\ r.writeCalls = 0 => r.arg = "none"

\* C12: in every execution of run(), write is called at most once, only
\* after schema validation succeeded and with the validated value; a run
\* that ended on a missing file, a load error, a definition error, a failing
\* factory or a validation failure has made no call of write.
C12_WriteOnlyAfterValidation ==
    /\ \A i \in 1..Len(runs) : WriteOnlyValidated(runs[i])
    /\ WriteOnlyValidated(lastRun)
    /\ lastRun.outcome \in NotValidated
          => (lastRun.writeCalls = 0 /\ ~lastRun.validated)

\* One run was abandoned on a validation failure without a call of write,
\* and the next run validated and is awaiting the one call of write it made.
C12_AbandonedThenWriting ==
    /\ lastRun.outcome = "parseFails" /\ lastRun.writeCalls = 0
    /\ Len(runs) = 1 /\ runs[1].pc = "write"
    /\ runs[1].validated /\ runs[1].writeCalls = 1

\* The outcomes of run() in which an error was raised while loading or
\* invoking the factory, validating or writing, and was caught (lines
\* 165-174).
Caught ==
    {"requireThrows", "notFunction", "fnThrows", "fnRejects", "notZodFig",
     "parseFails", "writeThrows", "writeRejects"}

\* C13 (as claimed): after a run in which an error was caught, the process
\* has not crashed and the orchestration continues: once no run is in flight
\* and no re-invocation is pending the in-progress flag is clear, so that a
\* later change event starts a run.  Stated for watch mode, for the builds in
\* which `runIn` is defined, and for a process that has not called
\* process.exit.
C13_ErrorsCaughtLoopContinues ==
    (opts.watch /\ env.runInDefined /\ status # "exited"
        /\ lastRun.outcome \in Caught /\ runs = <<>> /\ timers = 0)
    => (status = "running" /\ ~going)

-----------------------------------------------------------------------------
(* Properties of merge and override as functions of the data *)

\* The field paths of a data value all begin with one of its top-level
\* fields: two data values share no field path when they share no
\* top-level field.  Absent data has no field.
TopFields(d) == IF d.k = "map" THEN DOMAIN d.v ELSE {}
NoSharedPath(a, b, c) ==
    /\ TopFields(a) \cap TopFields(b) = {}
    /\ TopFields(a) \cap TopFields(c) = {}
    /\ TopFields(b) \cap TopFields(c) = {}
AllMerged == Len(units) >= 3 + Len(MergeSteps)

\* C14: for instances a, b, c whose data share no field path,
\* (a.merge(b)).merge(c) and a.merge(b.merge(c)) have deep-equal data.
C14_MergeAssociativeOnDisjoint ==
    (AllMerged /\ NoSharedPath(units[1].data0, units[2].data0, units[3].data0))
    => units[5].data0 = units[7].data0

\* Both groupings were evaluated on three non-empty operands with disjoint
\* fields, among them a nested mapping and a sequence.
C14_ThreeDisjointMerged ==
    /\ AllMerged
    /\ NoSharedPath(units[1].data0, units[2].data0, units[3].data0)
    /\ \A u \in 1..3 : TopFields(units[u].data0) # {}
    /\ DOMAIN units[7].data0.v = {"x", "y", "db", "tags"}

Empty == DMap(<<>>)

\* C15: a.merge(e), where the data of e is empty or absent, yields data
\* deep-equal to the data of a, and so does e.merge(a); absent data, on
\* either side, counts as the empty mapping.
C15_MergeWithEmptyIsIdentity ==
    last.op = "merge" =>
        /\ OrEmpty(last.b) = Empty => last.r = OrEmpty(last.a)
        /\ OrEmpty(last.a) = Empty => last.r = OrEmpty(last.b)

\* A non-empty instance holding a sequence of mappings was merged with an
\* instance whose data is absent.
C15_MergedWithAbsent ==
    /\ last.op = "merge" /\ last.b = DUndef
    /\ last.a = Configs[4] /\ last.r = Configs[4]

\* C16 (as claimed): a.override({}) returns an instance with the schema of a
\* whose data deep-equals the data of a.
C16_OverrideEmptyIsIdentity ==
    (last.op = "override" /\ last.b = Empty) =>
        /\ units[last.res]._schema = units[last.recv]._schema
        /\ last.r = last.a

\* C16 (amended): a.override({}) returns an instance with the schema of a
\* whose data deep-equals the data of a when a has data, and is the empty
\* mapping when the data of a is absent.
C16_OverrideEmptyIsIdentityOnData ==
    (last.op = "override" /\ last.b = Empty) =>
        /\ units[last.res]._schema = units[last.recv]._schema
        /\ last.a # DUndef => last.r = last.a
        /\ last.a = DUndef => last.r = Empty

\* An instance made by merge, holding a nested mapping and a sequence, was
\* overridden with {}.
C16_MergedUnitOverriddenWithEmpty ==
    /\ last.op = "override" /\ last.b = Empty
    /\ units[last.recv].origin = "merge"
    /\ {"db", "tags"} \subseteq TopFields(last.a)
    /\ last.r = last.a

\* C17 (as claimed): while the process runs, `going` is true only while an
\* activation of run() has started and not yet returned.  Stated for the
\* builds in which `runIn` is defined.
C17_GoingOnlyWhileRunning ==
    (status = "running" /\ env.runInDefined /\ going) => Len(runs) >= 1

\* C18: at most one command handle has not been sent SIGTERM, and whenever
\* go spawns the dependent command, every command handle spawned before has
\* already been sent SIGTERM and no activation of run() is in flight: the
\* one go awaited has returned.
C18_SpawnAfterKillAndRun ==
    /\ [](Cardinality({p \in 1..Len(procs) : ~procs[p].sigterm}) <= 1)
    /\ [][Len(procs') > Len(procs) =>
             /\ \A p \in 1..Len(procs) : procs'[p].sigterm
             /\ Len(runs) <= 1 /\ runs' = <<>>]_vars

\* The command was spawned a second time: the first handle has been sent
\* SIGTERM and has not exited yet, the second has not been signalled.
C18_Respawned ==
    /\ Len(procs) = 2 /\ activeCmd = 2
    /\ procs[1].sigterm /\ ~procs[1].exited
    /\ ~procs[2].sigterm

\* The code process.exit is called with for the code of a command's 'exit'
\* event: `code ?? undefined`, and process.exit(undefined) exits with 0.
ExitWith(code) == IF code = NullCode THEN 0 ELSE code

\* Without --watch, once the single run has completed: with no command the
\* process has exited, with code 0; with a command it was spawned once, and
\* the process has exited exactly if the command has, with its code.
ExitsAfterSingleRun ==
    (~opts.watch /\ pc = "loop" /\ runs = <<>>) =>
        /\ counts.started = 1 /\ status \in {"running", "exited"}
        /\ ~opts.command => (status = "exited" /\ exitCode = 0 /\ procs = <<>>)
        /\ opts.command =>
              /\ Len(procs) = 1
              /\ status = "exited" <=> procs[1].exited
              /\ status = "exited" => exitCode = ExitWith(procs[1].code)

\* Without --watch the process does not exit before or during the run.
NoExitBeforeRunEnds ==
    (~opts.watch /\ (pc = "start" \/ runs # <<>>)) => status = "running"

\* A step in which an activation of run() returns, or a command exits.
RunCompletes == Len(runs') < Len(runs) \/ (runs' = runs /\ counts'.started > counts.started)
CommandExits == \E p \in 1..Len(procs) : ~procs[p].exited /\ procs'[p].exited

\* C19: without --watch the process exits after the single run, at once
\* when no command was given and otherwise when the spawned command exits,
\* with its exit code; with --watch no completion of a run and no exit of a
\* spawned command makes the process call process.exit (and, in the builds
\* in which `runIn` is defined, neither ends the process in any way).
C19_ExitFollowsMode ==
    /\ [](ExitsAfterSingleRun /\ NoExitBeforeRunEnds)
    /\ [][(opts.watch /\ (RunCompletes \/ CommandExits)) =>
             /\ status' # "exited"
             /\ env.runInDefined => status' = status]_vars

\* With --watch and a command: two runs have completed, the command spawned
\* after the first has exited, and the process is running.
C19_WatchSurvivesRunAndCommandExit ==
    /\ opts.watch /\ opts.command /\ status = "running"
    /\ counts.started = 2 /\ runs = <<>>
    /\ Len(procs) = 2 /\ procs[1].exited

\* A step in which a watcher delivers an event, and what the step leaves
\* alone when the callback does nothing.
EventDelivered == events' = events + 1
NothingTriggered ==
    /\ counts' = counts /\ runs' = runs /\ procs' = procs /\ timers' = timers
    /\ going' = going /\ shouldRego' = shouldRego /\ status' = status

\* C20: in watch mode a 'change' event, and an 'add' event of a watcher that
\* has emitted 'ready', call go once; an 'add' event before 'ready' triggers
\* nothing; any other event sends a kill to the active command, if there is
\* one, and exits the process without calling go; and once the process has
\* exited no go is called and no run starts.
C20_WatcherEventDispatch ==
    /\ [][EventDelivered =>
             /\ opts.watch
             /\ IF lastEvent'.name = "change"
                   \/ (lastEvent'.name = "add" /\ ready[lastEvent'.file])
                THEN counts'.goCalls = counts.goCalls + 1 /\ status' # "exited"
                ELSE IF lastEvent'.name = "add" THEN NothingTriggered
                ELSE /\ status' = "exited"
                     /\ counts' = counts /\ runs' = runs
                     /\ Len(procs') = Len(procs)
                     /\ activeCmd # 0 => procs'[activeCmd].sigterm]_vars
    /\ [][status = "exited" => (counts' = counts /\ runs' = runs)]_vars

\* Two events were delivered after the first run spawned the command: an
\* 'add' before 'ready', which called no go, and then one that is neither
\* 'add' nor 'change', which signalled the running command and exited the
\* process.
C20_HaltedByOtherEvent ==
    /\ events = 2 /\ counts.goCalls = 1 /\ counts.started = 1
    /\ lastEvent.name = "unlink" /\ status = "exited"
    /\ activeCmd # 0 /\ procs[activeCmd].sigterm /\ ~procs[activeCmd].exited

====
